---- MODULE Spec2Model ----
(***************************************************************************)
(* Model of testfilefrag.py: validation of `filefrag -e` extent reports.   *)
(*                                                                         *)
(*   SpecMerge  the merge pass of parse_filefrag, one loop iteration per   *)
(*              step, over every short list of reported extents            *)
(*   SpecRead   dataread over a byte-addressed device                      *)
(*   SpecTest   test_filefrag                                              *)
(*   SpecMain   the orchestration loop with its exception hook, its        *)
(*              SIGINT handler and cleanup                                 *)
(***************************************************************************)
EXTENDS Integers, Sequences, FiniteSets, TLC

\* ------------------------------------------------------------------ bounds
\* Longest list of extent lines in a report
MaxExtents == 3
\* Largest physical start sector in a report
MaxStart == 3
\* Largest extent length in a report
MaxSize == 3

\* Longest extent list handed to dataread / test_filefrag
MaxReadExtents == 2
\* Largest start sector and length of an extent handed to dataread
MaxReadStart == 2
MaxReadSize == 2
\* Sectors on the device that is read
DevSectors == 3

\* SIGINTs delivered to the script in one run
MaxSigints == 1

\* Python's None for prev_start / prev_size (sector numbers are \d+, never negative)
None == -1

VARIABLES
    \* parse_filefrag
    raw,            \* the (start, size) pairs of the matching report lines
    extent_list,    \* extent_list
    total,          \* total
    mergetotal,     \* mergetotal
    merged,         \* merged
    prev_start,     \* prev_start
    prev_size,      \* prev_size
    idx,            \* position of the for loop of line 79 in extent_list
    branch,         \* branch taken by the last loop iteration
    old_start,      \* prev_start before the last loop iteration
    old_size,       \* prev_size before the last loop iteration
    printed,        \* messages printed by the merge pass
    mpc,            \* position in parse_filefrag
    \* dataread
    elist,          \* elist
    size,           \* size
    start,          \* start
    outcome,        \* "call", "return" or "IndexError"
    data,           \* the bytes returned
    visited,        \* list positions visited by the while loop, in order
    \* test_filefrag (its elist is the variable elist above)
    dataA,          \* dataA: the bytes read from the file through the filesystem
    dataB,          \* dataB
    psize,          \* psize
    result,         \* "call", then "True", "False" or "IndexError"
    messages,       \* the RESULT lines printed
    \* the script body (its psize is the variable psize above)
    pc,             \* the statement about to run, by line; "exited" after the process ends
    ctx,            \* who runs it: "main", "signal_handler" or "excepthook"
    fs,             \* index in filesystems of the for loop of line 207
    MOUNTED,        \* MOUNTED
    mounted,        \* whether /dev/loop3p1 is really mounted on ./mnt
    attached,       \* whether /dev/loop3 is set up
    exc,            \* the exception that reached sys.excepthook or ended the run
    sigints,        \* SIGINTs delivered
    randextents,    \* randextents
    rand,           \* rand
    emptyextents,   \* emptyextents
    empty,          \* empty
    verdicts        \* what the test_filefrag calls of the current trial returned

mergeVars == <<raw, extent_list, total, mergetotal, merged, prev_start, prev_size,
               idx, branch, old_start, old_size, printed, mpc>>

readVars == <<elist, size, start, outcome, data, visited>>

testVars == <<dataA, dataB, psize, result, messages>>

mainVars == <<pc, ctx, fs, MOUNTED, mounted, attached, exc, sigints,
              randextents, rand, emptyextents, empty, verdicts>>

vars == <<mergeVars, readVars, testVars, mainVars>>
nonMergeVars == <<readVars, testVars, mainVars>>
nonReadVars == <<mergeVars, testVars, mainVars>>
nonTestVars == <<mergeVars, size, start, outcome, data, visited, mainVars>>
nonMainVars == <<mergeVars, readVars, dataA, dataB, result, messages>>

\* ----------------------------------------------------------------- helpers
Min(a, b) == IF a < b THEN a ELSE b
Max(a, b) == IF a > b THEN a ELSE b

RECURSIVE SumSizes(_)
SumSizes(l) == IF l = <<>> THEN 0 ELSE l[1][2] + SumSizes(Tail(l))

\* the variables of parse_filefrag while another function is under study
MergeIdle ==
    /\ raw = <<>> /\ extent_list = <<>> /\ total = 0 /\ mergetotal = 0
    /\ merged = <<>> /\ prev_start = None /\ prev_size = None /\ idx = 1
    /\ branch = "none" /\ old_start = None /\ old_size = None
    /\ printed = {} /\ mpc = "idle"

\* the variables of test_filefrag while another function is under study
TestIdle ==
    /\ dataA = <<>> /\ dataB = <<>> /\ psize = 0
    /\ result = "idle" /\ messages = {}

\* the variables of the script body while a function is under study
MainIdle ==
    /\ pc = "idle" /\ ctx = "main" /\ fs = 0
    /\ MOUNTED = FALSE /\ mounted = FALSE /\ attached = FALSE
    /\ exc = "none" /\ sigints = 0
    /\ randextents = <<>> /\ rand = <<>> /\ emptyextents = <<>> /\ empty = <<>>
    /\ verdicts = <<>>

\* the variables of dataread while another function is under study
ReadIdle ==
    /\ elist = <<>> /\ size = 0 /\ start = TRUE
    /\ outcome = "idle" /\ data = <<>> /\ visited = <<>>

RECURSIVE SeqsUpTo(_, _)
SeqsUpTo(S, n) ==
    IF n = 0 THEN {<<>>}
    ELSE LET shorter == SeqsUpTo(S, n - 1)
         IN  shorter \cup {Append(s, x) : s \in {t \in shorter : Len(t) = n - 1}, x \in S}

\* The extents a report line can name: start >= 0, length > 0
Extents == (0..MaxStart) \X (1..MaxSize)
Reports == SeqsUpTo(Extents, MaxExtents)

\* ---------------------------------------------------- parse_filefrag: merge
\* line 84
ConsecutiveAfter(ps, pz, es, ez) == ps + pz = es
\* line 86
ConsecutiveBefore(ps, pz, es, ez) == es + ez = ps
\* lines 90-91
Overlap(ps, pz, es, ez) ==
    \/ (ps <= es /\ es < ps + pz)
    \/ (ps < es + ez /\ es + ez <= ps + pz)

\* The branch of the if/elif chain of lines 81-100 taken for extent (es, ez)
Branch(ps, pz, es, ez) ==
    IF ps = None THEN "start"
    ELSE IF ConsecutiveAfter(ps, pz, es, ez) THEN "after"
    ELSE IF ConsecutiveBefore(ps, pz, es, ez) THEN "before"
    ELSE IF Overlap(ps, pz, es, ez) THEN "overlap"
    ELSE "gap"

\* lines 94-95: prev_start is assigned first, prev_size is computed from the new prev_start
OverlapStart(ps, pz, es, ez) == Min(ps, es)
\* the faulty variant adds the lengths as the consecutive branches do
OverlapSizeAsConsecutive(ps, pz, es, ez) == pz + ez
OverlapSize(ps, pz, es, ez) ==
    LET new_start == OverlapStart(ps, pz, es, ez)
    IN  Max(new_start + pz, es + ez) - new_start

\* line 85 and line 88; the faulty variant drops the pending length
ConsecutiveSizeDropsPending(pz, ez) == ez
ConsecutiveSize(pz, ez) == pz + ez

\* lines 98-100: flush the pending extent, the incoming one becomes pending;
\* the faulty variant keeps the flushed extent's start
GapStepKeepsStart(m, es, ez) ==
    [m EXCEPT !.merged = Append(m.merged, <<m.prev_start, m.prev_size>>),
              !.mergetotal = m.mergetotal + m.prev_size,
              !.prev_size = ez]
GapStep(m, es, ez) ==
    [m EXCEPT !.merged = Append(m.merged, <<m.prev_start, m.prev_size>>),
              !.mergetotal = m.mergetotal + m.prev_size,
              !.prev_start = es, !.prev_size = ez]

\* One iteration of the loop of line 79 on the loop state
\* m = [prev_start, prev_size, merged, mergetotal, overlaps]
MergeStep(m, e) ==
    LET es == e[1]
        ez == e[2]
        b  == Branch(m.prev_start, m.prev_size, es, ez)
    IN  CASE b = "start"   -> [m EXCEPT !.prev_start = es, !.prev_size = ez]
          [] b = "after"   -> [m EXCEPT !.prev_size = ConsecutiveSize(m.prev_size, ez)]
          [] b = "before"  -> [m EXCEPT !.prev_start = es,
                                        !.prev_size = ConsecutiveSize(m.prev_size, ez)]
          [] b = "overlap" -> [m EXCEPT !.prev_start = OverlapStart(m.prev_start, m.prev_size, es, ez),
                                        !.prev_size = OverlapSize(m.prev_start, m.prev_size, es, ez),
                                        !.overlaps = m.overlaps + 1]
          [] b = "gap"     -> GapStep(m, es, ez)

\* lines 76-78
MergeInit == [prev_start |-> None, prev_size |-> None, merged |-> <<>>,
              mergetotal |-> 0, overlaps |-> 0]

RECURSIVE MergeLoop(_, _)
MergeLoop(m, l) == IF l = <<>> THEN m ELSE MergeLoop(MergeStep(m, Head(l)), Tail(l))

\* lines 101-102
MergeFlush(m) == [m EXCEPT !.merged = Append(m.merged, <<m.prev_start, m.prev_size>>),
                           !.mergetotal = m.mergetotal + m.prev_size]

\* lines 74-109: what parse_filefrag returns for the parsed list l
MergePass(l) ==
    IF SumSizes(l) > 0 /\ Len(l) > 0
    THEN LET m == MergeFlush(MergeLoop(MergeInit, l))
         IN  [total |-> m.mergetotal, extent_list |-> m.merged,
              overlaps |-> m.overlaps, warned |-> SumSizes(l) # m.mergetotal]
    ELSE [total |-> SumSizes(l), extent_list |-> l, overlaps |-> 0, warned |-> FALSE]

LoopState == [prev_start |-> prev_start, prev_size |-> prev_size, merged |-> merged,
              mergetotal |-> mergetotal, overlaps |-> 0]

InitMerge ==
    /\ raw \in Reports
    /\ extent_list = <<>>
    /\ total = 0
    /\ mergetotal = 0
    /\ merged = <<>>
    /\ prev_start = None
    /\ prev_size = None
    /\ idx = 1
    /\ branch = "none"
    /\ old_start = None
    /\ old_size = None
    /\ printed = {}
    /\ mpc = "parse"
    /\ ReadIdle
    /\ TestIdle
    /\ MainIdle

\* lines 63-73: the matching lines become extent_list, their lengths add up to total
ParseLines ==
    /\ mpc = "parse"
    /\ extent_list' = raw
    /\ total' = SumSizes(raw)
    /\ mpc' = "parsed"
    /\ UNCHANGED <<raw, mergetotal, merged, prev_start, prev_size, idx, branch,
                   old_start, old_size, printed>>
    /\ UNCHANGED nonMergeVars

\* line 74 false: nothing to merge
MergeSkip ==
    /\ mpc = "parsed"
    /\ ~(total > 0 /\ Len(extent_list) > 0)
    /\ mpc' = "done"
    /\ UNCHANGED <<raw, extent_list, total, mergetotal, merged, prev_start, prev_size,
                   idx, branch, old_start, old_size, printed>>
    /\ UNCHANGED nonMergeVars

\* lines 74-78
MergeBegin ==
    /\ mpc = "parsed"
    /\ total > 0 /\ Len(extent_list) > 0
    /\ mergetotal' = MergeInit.mergetotal
    /\ merged' = MergeInit.merged
    /\ prev_start' = MergeInit.prev_start
    /\ prev_size' = MergeInit.prev_size
    /\ idx' = 1
    /\ mpc' = "loop"
    /\ UNCHANGED <<raw, extent_list, total, branch, old_start, old_size, printed>>
    /\ UNCHANGED nonMergeVars

\* lines 79-100: one iteration, taking branch b
MergeIter(b) ==
    /\ mpc = "loop"
    /\ idx <= Len(extent_list)
    /\ LET e == extent_list[idx]
           m == MergeStep(LoopState, e)
       IN  /\ Branch(prev_start, prev_size, e[1], e[2]) = b
           /\ prev_start' = m.prev_start
           /\ prev_size' = m.prev_size
           /\ merged' = m.merged
           /\ mergetotal' = m.mergetotal
           /\ printed' = IF m.overlaps > 0 THEN printed \cup {"Overlap found"} ELSE printed
    /\ branch' = b
    /\ old_start' = prev_start
    /\ old_size' = prev_size
    /\ idx' = idx + 1
    /\ UNCHANGED <<raw, extent_list, total, mpc>>
    /\ UNCHANGED nonMergeVars

MergeIterStart   == MergeIter("start")
MergeIterAfter   == MergeIter("after")
MergeIterBefore  == MergeIter("before")
MergeIterOverlap == MergeIter("overlap")
MergeIterGap     == MergeIter("gap")

\* lines 101-109
MergeEnd ==
    /\ mpc = "loop"
    /\ idx > Len(extent_list)
    /\ LET m == MergeFlush(LoopState)
       IN  /\ merged' = m.merged
           /\ mergetotal' = m.mergetotal
           /\ printed' = IF total # m.mergetotal
                         THEN printed \cup {"RESULT WARNING: Extent overlaps giving incorrect size!"}
                         ELSE printed
           /\ extent_list' = m.merged
           /\ total' = m.mergetotal
    /\ mpc' = "done"
    /\ UNCHANGED <<raw, prev_start, prev_size, idx, branch, old_start, old_size>>
    /\ UNCHANGED nonMergeVars

NextMerge ==
    \/ ParseLines
    \/ MergeSkip
    \/ MergeBegin
    \/ MergeIterStart
    \/ MergeIterAfter
    \/ MergeIterBefore
    \/ MergeIterOverlap
    \/ MergeIterGap
    \/ MergeEnd

SpecMerge == InitMerge /\ [][NextMerge]_vars

\* ------------------------------------------------------- merge: properties
SizeWarning == "RESULT WARNING: Extent overlaps giving incorrect size!"
End(e) == e[1] + e[2]
\* two extents share at least one sector
ShareSector(a, b) == a[1] < End(b) /\ b[1] < End(a)
NoOverlappingPair(l) ==
    \A i, j \in 1..Len(l) : i < j => ~ShareSector(l[i], l[j])
SortedByStart(l) == \A i \in 1..(Len(l) - 1) : l[i][1] <= l[i + 1][1]
\* the loop has just run an iteration on extent_list[idx - 1] with a pending extent
Iterated == mpc = "loop" /\ branch \notin {"none", "start"}
Pending == <<old_start, old_size>>
Incoming == extent_list[idx - 1]

\* C3: an extent fused through the overlap branch leaves the pending extent equal
\* to the union span: start = min of the starts, end = max of the ends.
C3_OverlapFusesToUnion ==
    (Iterated /\ branch = "overlap") =>
        /\ prev_start = Min(old_start, Incoming[1])
        /\ prev_start + prev_size = Max(End(Pending), End(Incoming))

\* C4 (as claimed): merging the merged list again yields the same list and total.
C4_MergeIdempotent ==
    mpc = "done" =>
        /\ MergePass(extent_list).extent_list = extent_list
        /\ MergePass(extent_list).total = total

\* C4 (amended): for a report whose extents come in ascending order of start,
\* merging the merged list again yields the same list and the same total.
C4_MergeIdempotentSorted ==
    (mpc = "done" /\ SortedByStart(raw)) =>
        /\ MergePass(extent_list).extent_list = extent_list
        /\ MergePass(extent_list).total = total

C4_Witness ==
    /\ mpc = "done" /\ SortedByStart(raw)
    /\ Len(raw) = 3 /\ Len(extent_list) = 2
    /\ "Overlap found" \in printed

\* C5: when no two reported extents share a sector, the merged lengths add up to
\* the reported lengths, no size warning is printed, and the merged list is no
\* longer than the reported one.
C5_MergeConservation ==
    (mpc = "done" /\ NoOverlappingPair(raw)) =>
        /\ total = SumSizes(raw)
        /\ SumSizes(extent_list) = SumSizes(raw)
        /\ SizeWarning \notin printed
        /\ Len(extent_list) <= Len(raw)

C5_Witness ==
    /\ mpc = "done" /\ NoOverlappingPair(raw)
    /\ Len(raw) = 3 /\ Len(extent_list) = 1
    /\ ~SortedByStart(raw)

\* C6: once the overlap branch has been taken, the returned total differs from
\* the sum of the reported lengths and the size warning is printed.
C6_OverlapIsFlagged ==
    (mpc = "done" /\ "Overlap found" \in printed) =>
        /\ total # SumSizes(raw)
        /\ SizeWarning \in printed

C6_Witness ==
    /\ mpc = "done" /\ "Overlap found" \in printed
    /\ Len(extent_list) = 2

\* C9: a pending extent and an incoming extent that share a sector are fused by
\* the overlap branch, with its diagnostic, never kept apart as a gap.
C9_SharedSectorTakesOverlap ==
    (Iterated /\ ShareSector(Pending, Incoming)) =>
        /\ branch = "overlap"
        /\ "Overlap found" \in printed

\* ---------------------------------------------------------------- dataread
\* bytes per sector, lines 125
SectorBytes == 512
\* line 146
CMPSIZE == 256

DevBytes == DevSectors * SectorBytes
\* The device image: the byte at offset o (0-based) is Device[o + 1]
Device == [o \in 1..DevBytes |-> (o - 1) % 251]

\* fdesc.seek(off); fdesc.read(n): at most n bytes, fewer at the end of the device
SeekRead(off, n) == SubSeq(Device, off + 1, Min(off + n, DevBytes))

\* elist[i] with Python's indexing: -len..-1 count from the end, anything
\* outside -len..len-1 raises IndexError
IndexInRange(l, i) == -Len(l) <= i /\ i <= Len(l) - 1
Position(l, i) == IF i >= 0 THEN i + 1 ELSE Len(l) + i + 1

\* lines 130 and 133: where a partially consumed extent is read from;
\* the faulty variant reads a tail read from the front of the extent
PartialSeekFromFront(estartB, esizeB, remaining, st) == estartB
PartialSeek(estartB, esizeB, remaining, st) ==
    IF st THEN estartB ELSE estartB + esizeB - remaining

\* lines 131/134 and 139/141: append for a read from the start, prepend otherwise
Accumulate(acc, chunk, st) == IF st THEN acc \o chunk ELSE chunk \o acc

\* lines 124-143: one iteration of the while loop on d = [i, readin, data, visited]
DatareadStep(l, n, st, d) ==
    LET e == l[Position(l, d.i)]
        estartB == e[1] * SectorBytes
        esizeB == e[2] * SectorBytes
        remaining == n - d.readin
        inc == IF st THEN 1 ELSE -1
    IN  IF esizeB > remaining
        THEN [i |-> d.i + inc,
              readin |-> d.readin + remaining,
              data |-> Accumulate(d.data,
                                  SeekRead(PartialSeek(estartB, esizeB, remaining, st), remaining),
                                  st),
              visited |-> Append(d.visited, Position(l, d.i))]
        ELSE [i |-> d.i + inc,
              readin |-> d.readin + esizeB,
              data |-> Accumulate(d.data, SeekRead(estartB, esizeB), st),
              visited |-> Append(d.visited, Position(l, d.i))]

\* lines 113-120
DatareadInit(l, st) ==
    [i |-> IF st THEN 0 ELSE Len(l) - 1, readin |-> 0, data |-> <<>>, visited |-> <<>>]

\* lines 123-144: the while loop, to its return or to the IndexError of line 124
RECURSIVE DatareadLoop(_, _, _, _)
DatareadLoop(l, n, st, d) ==
    IF ~(d.readin < n) THEN [outcome |-> "return", data |-> d.data, visited |-> d.visited]
    ELSE IF ~IndexInRange(l, d.i)
         THEN [outcome |-> "IndexError", data |-> <<>>, visited |-> d.visited]
         ELSE DatareadLoop(l, n, st, DatareadStep(l, n, st, d))

\* dataread(loop, elist, size, start)
Dataread(l, n, st) == DatareadLoop(l, n, st, DatareadInit(l, st))

ReadExtents == (0..MaxReadStart) \X (1..MaxReadSize)
ReadLists == SeqsUpTo(ReadExtents, MaxReadExtents)
\* requested sizes around the sector and extent boundaries
ReadSizes == {1, CMPSIZE, SectorBytes, SectorBytes + 1, 2 * SectorBytes,
              2 * SectorBytes + CMPSIZE, 3 * SectorBytes + 1}

InitRead ==
    /\ elist \in ReadLists
    /\ size \in ReadSizes
    /\ start \in BOOLEAN
    /\ outcome = "call"
    /\ data = <<>>
    /\ visited = <<>>
    /\ MergeIdle
    /\ TestIdle
    /\ MainIdle

\* dataread returns its bytes
DatareadReturn ==
    /\ outcome = "call"
    /\ LET r == Dataread(elist, size, start)
       IN  /\ r.outcome = "return"
           /\ outcome' = r.outcome
           /\ data' = r.data
           /\ visited' = r.visited
    /\ UNCHANGED <<elist, size, start>>
    /\ UNCHANGED nonReadVars

\* dataread ends in the IndexError of elist[i]
DatareadIndexError ==
    /\ outcome = "call"
    /\ LET r == Dataread(elist, size, start)
       IN  /\ r.outcome = "IndexError"
           /\ outcome' = r.outcome
           /\ data' = r.data
           /\ visited' = r.visited
    /\ UNCHANGED <<elist, size, start>>
    /\ UNCHANGED nonReadVars

NextRead ==
    \/ DatareadReturn
    \/ DatareadIndexError

SpecRead == InitRead /\ [][NextRead]_vars

\* ---------------------------------------------------- dataread: properties
\* device bytes of the span [start*512, (start+length)*512) of extent e
SpanBytes(e) == SubSeq(Device, e[1] * SectorBytes + 1, (e[1] + e[2]) * SectorBytes)
RECURSIVE Concatenation(_)
Concatenation(l) == IF l = <<>> THEN <<>> ELSE SpanBytes(Head(l)) \o Concatenation(Tail(l))
TotalSpan(l) == SumSizes(l) * SectorBytes
InsideDevice(l) == \A k \in 1..Len(l) : End(l[k]) <= DevSectors
FirstBytes(s, n) == SubSeq(s, 1, n)
LastBytes(s, n) == SubSeq(s, Len(s) - n + 1, Len(s))
NoRepeat(s) == \A j, k \in 1..Len(s) : j # k => s[j] # s[k]

\* C2: when the extents lie inside the device and span at least size bytes,
\* dataread returns exactly size bytes: the first size bytes of the concatenation
\* of the extents' spans for start=True, the last size bytes for start=False.
C2_DatareadReturnsPrefixOrSuffix ==
    (outcome # "call" /\ TotalSpan(elist) >= size /\ InsideDevice(elist)) =>
        /\ outcome = "return"
        /\ Len(data) = size
        /\ data = IF start THEN FirstBytes(Concatenation(elist), size)
                           ELSE LastBytes(Concatenation(elist), size)

C2_Witness ==
    /\ outcome = "return" /\ ~start
    /\ InsideDevice(elist) /\ Len(elist) = 2
    /\ elist[1] # elist[2]
    /\ size > elist[2][2] * SectorBytes
    /\ size < TotalSpan(elist)
    /\ visited = <<2, 1>>

\* C7: in both directions dataread fails when the extents span fewer than size
\* bytes, and it never returns bytes gathered by visiting an extent twice.
C7_ShortListFails ==
    /\ (outcome # "call" /\ TotalSpan(elist) < size) => outcome = "IndexError"
    /\ outcome = "return" => NoRepeat(visited)

\* ----------------------------------------------------------- test_filefrag
Passed == "RESULT: filefrag validation PASSED"
CompareFailed == "RESULT: filefrag data comparison FAILED"
InsideFailed == "RESULT: filefrag extent inside check FAILED"

\* lines 151-153
RECURSIVE MaxEnd(_, _)
MaxEnd(maxend, l) ==
    IF l = <<>> THEN maxend ELSE MaxEnd(Max(maxend, Head(l)[1] + Head(l)[2]), Tail(l))

\* line 155; the faulty variant also rejects an extent ending at the partition end
InsideStrict(maxend, ps) == maxend < ps
Inside(maxend, ps) == maxend <= ps

\* lines 156-169
Verdict(compare, inside) ==
    IF compare /\ inside
    THEN [result |-> "True", messages |-> {Passed}]
    ELSE [result |-> "False",
          messages |-> (IF ~compare THEN {CompareFailed} ELSE {})
                       \cup (IF ~inside THEN {InsideFailed} ELSE {})]

\* lines 149-169: test_filefrag(dataA, fstype, loop, elist, psize)
TestFilefrag(a, l, ps) ==
    LET head == Dataread(l, CMPSIZE, TRUE)
        tail == Dataread(l, CMPSIZE, FALSE)
    IN  IF head.outcome = "IndexError" \/ tail.outcome = "IndexError"
        THEN [result |-> "IndexError", messages |-> {}, dataB |-> <<>>]
        ELSE LET b == head.data \o tail.data
                 v == Verdict(a = b, Inside(MaxEnd(0, l), ps))
             IN  [result |-> v.result, messages |-> v.messages, dataB |-> b]

\* lines 224-227: the first and the last CMPSIZE bytes of a file placed on extents t
HeadTail(t) ==
    FirstBytes(Concatenation(t), CMPSIZE) \o LastBytes(Concatenation(t), CMPSIZE)
FlipByte(s, k) == [s EXCEPT ![k] = (s[k] + 1) % 256]

\* The bytes the file can hold when filefrag reports l: those at the reported
\* extents, those with one byte different, those of a file placed elsewhere
FileBytes(l) ==
    LET elsewhere == {HeadTail(<<<<s, 1>>>>) : s \in 0..(DevSectors - 1)}
        reported == IF l # <<>> /\ InsideDevice(l) THEN {HeadTail(l)} ELSE {}
    IN  elsewhere \cup reported
            \cup {FlipByte(b, 1) : b \in reported}
            \cup {FlipByte(b, 2 * CMPSIZE) : b \in reported}

InitTest ==
    /\ elist \in ReadLists
    /\ dataA \in FileBytes(elist)
    /\ psize \in 1..DevSectors
    /\ dataB = <<>>
    /\ result = "call"
    /\ messages = {}
    /\ size = 0 /\ start = TRUE /\ outcome = "idle" /\ data = <<>> /\ visited = <<>>
    /\ MergeIdle
    /\ MainIdle

TestReturns(r) ==
    /\ result = "call"
    /\ LET t == TestFilefrag(dataA, elist, psize)
       IN  /\ t.result = r
           /\ result' = t.result
           /\ messages' = t.messages
           /\ dataB' = t.dataB
    /\ UNCHANGED <<elist, dataA, psize>>
    /\ UNCHANGED nonTestVars

TestPassed == TestReturns("True")
TestFailed == TestReturns("False")
TestIndexError == TestReturns("IndexError")

NextTest ==
    \/ TestPassed
    \/ TestFailed
    \/ TestIndexError

SpecTest == InitTest /\ [][NextTest]_vars

\* ------------------------------------------------ test_filefrag: properties
\* the bytes read back from the device through the extent list
Reconstructed(l) == Dataread(l, CMPSIZE, TRUE).data \o Dataread(l, CMPSIZE, FALSE).data
ExtentEnds(l) == {End(l[k]) : k \in 1..Len(l)}
WithinPartition(l, ps) == \A x \in ExtentEnds(l) : x <= ps

\* C1: test_filefrag returns True exactly when the bytes read back through the
\* extents equal dataA and no extent ends beyond psize; otherwise it returns
\* False and prints one line per failed check, each independently of the other.
C1_PassIffContentAndBounds ==
    result \in {"True", "False"} =>
        /\ result = "True" <=>
               (Reconstructed(elist) = dataA /\ WithinPartition(elist, psize))
        /\ CompareFailed \in messages <=> Reconstructed(elist) # dataA
        /\ InsideFailed \in messages <=> ~WithinPartition(elist, psize)
        /\ Passed \in messages <=> result = "True"

\* a bounds violation reported although the bytes match
C1_Witness ==
    /\ result = "False"
    /\ dataB = dataA
    /\ messages = {InsideFailed}

\* ------------------------------------------------------------- script body
\* lines 25-32: the fstype of each entry
filesystems == <<"vfat", "ext4", "hfsplus", "ntfs", "xfs", "btrfs">>

\* The exe calls of the script body that only run a command, and the statement
\* that follows each.  L203 stands for the loop of lines 202-203, L221 for lines
\* 217-221.
PlainNext ==
    [L200 |-> "L201", L201 |-> "L203", L203 |-> "L204", L204 |-> "L205",
     L205 |-> "L206", L209 |-> "L210", L210 |-> "L211", L211 |-> "L212",
     L212 |-> "L213", L215 |-> "L216", L216 |-> "L221", L221 |-> "L222",
     L222 |-> "L223", L236 |-> "L237"]
\* every statement of the script body that calls exe
ExeLines == DOMAIN PlainNext \cup {"L206", "L213", "L223", "L228", "L233", "L237"}
CleanupLines == {"C174", "C176", "C177"}

\* What filefrag reports for a file in a trial, and what the file holds
MainReports == {<<>>, <<<<0, 1>>>>, <<<<0, 1>>, <<1, 1>>>>}
MainFileBytes == {HeadTail(<<<<0, 1>>>>), HeadTail(<<<<0, 2>>>>)}
MainPsizes == {1, 2}

InitMain ==
    /\ pc = "L200"
    /\ ctx = "main"
    /\ fs = 0
    /\ MOUNTED = FALSE
    /\ mounted = FALSE
    /\ attached = FALSE
    /\ exc = "none"
    /\ sigints = 0
    /\ randextents = <<>> /\ rand = <<>> /\ emptyextents = <<>> /\ empty = <<>>
    /\ verdicts = <<>>
    /\ psize = 0
    /\ elist = <<>> /\ dataA = <<>> /\ dataB = <<>> /\ result = "idle" /\ messages = {}
    /\ size = 0 /\ start = TRUE /\ outcome = "idle" /\ data = <<>> /\ visited = <<>>
    /\ MergeIdle

Running == ctx = "main" /\ pc # "exited"

\* An exception leaves the script body or a handler (lines 184-189, 192-196):
\* uncaught in the body or in signal_handler it reaches sys.excepthook, which
\* runs cleanup; raised inside sys.excepthook it ends the process at once.
Raise(e) ==
    IF ctx = "excepthook"
    THEN /\ pc' = "exited"
         /\ UNCHANGED <<ctx, exc>>
    ELSE /\ pc' = "C174"
         /\ ctx' = "excepthook"
         /\ exc' = e

\* lines 34-56: exe returns, the command having exited with 0
PlainExe ==
    /\ Running
    /\ pc \in DOMAIN PlainNext
    /\ pc' = PlainNext[pc]
    /\ UNCHANGED <<ctx, fs, MOUNTED, mounted, attached, exc, sigints,
                   randextents, rand, emptyextents, empty, verdicts, psize>>
    /\ UNCHANGED nonMainVars

\* lines 54-55: a command of the script body exits with non-zero
ExeRaises ==
    /\ Running
    /\ pc \in ExeLines
    /\ Raise("Returncode")
    /\ UNCHANGED <<fs, MOUNTED, mounted, attached, sigints,
                   randextents, rand, emptyextents, empty, verdicts, psize>>
    /\ UNCHANGED nonMainVars

\* line 206
Losetup ==
    /\ Running
    /\ pc = "L206"
    /\ attached' = TRUE
    /\ pc' = "L207"
    /\ UNCHANGED <<ctx, fs, MOUNTED, mounted, exc, sigints,
                   randextents, rand, emptyextents, empty, verdicts, psize>>
    /\ UNCHANGED nonMainVars

\* lines 207-208: the next filesystem; the values left by the previous trial are
\* dead (each is assigned again before it is read) and are dropped
ForNext ==
    /\ Running
    /\ pc = "L207"
    /\ fs < Len(filesystems)
    /\ fs' = fs + 1
    /\ pc' = "L209"
    /\ randextents' = <<>> /\ rand' = <<>> /\ emptyextents' = <<>> /\ empty' = <<>>
    /\ verdicts' = <<>>
    /\ psize' = 0
    /\ UNCHANGED <<ctx, MOUNTED, mounted, attached, exc, sigints>>
    /\ UNCHANGED nonMainVars

\* line 207: the list is exhausted
ForDone ==
    /\ Running
    /\ pc = "L207"
    /\ fs = Len(filesystems)
    /\ pc' = "L242"
    /\ UNCHANGED <<ctx, fs, MOUNTED, mounted, attached, exc, sigints,
                   randextents, rand, emptyextents, empty, verdicts, psize>>
    /\ UNCHANGED nonMainVars

\* line 213
Mount ==
    /\ Running
    /\ pc = "L213"
    /\ mounted' = TRUE
    /\ pc' = "L214"
    /\ UNCHANGED <<ctx, fs, MOUNTED, attached, exc, sigints,
                   randextents, rand, emptyextents, empty, verdicts, psize>>
    /\ UNCHANGED nonMainVars

\* line 214
SetMounted ==
    /\ Running
    /\ pc = "L214"
    /\ MOUNTED' = TRUE
    /\ pc' = "L215"
    /\ UNCHANGED <<ctx, fs, mounted, attached, exc, sigints,
                   randextents, rand, emptyextents, empty, verdicts, psize>>
    /\ UNCHANGED nonMainVars

\* line 223
ParseRandom ==
    /\ Running
    /\ pc = "L223"
    /\ \E r \in MainReports : randextents' = MergePass(r).extent_list
    /\ pc' = "L224"
    /\ UNCHANGED <<ctx, fs, MOUNTED, mounted, attached, exc, sigints,
                   rand, emptyextents, empty, verdicts, psize>>
    /\ UNCHANGED nonMainVars

\* lines 224-227
ReadRandom ==
    /\ Running
    /\ pc = "L224"
    /\ rand' \in MainFileBytes
    /\ pc' = "L228"
    /\ UNCHANGED <<ctx, fs, MOUNTED, mounted, attached, exc, sigints,
                   randextents, emptyextents, empty, verdicts, psize>>
    /\ UNCHANGED nonMainVars

\* line 228
ParseEmpty ==
    /\ Running
    /\ pc = "L228"
    /\ \E r \in MainReports : emptyextents' = MergePass(r).extent_list
    /\ pc' = "L229"
    /\ UNCHANGED <<ctx, fs, MOUNTED, mounted, attached, exc, sigints,
                   randextents, rand, empty, verdicts, psize>>
    /\ UNCHANGED nonMainVars

\* lines 229-232
ReadEmpty ==
    /\ Running
    /\ pc = "L229"
    /\ empty' \in MainFileBytes
    /\ pc' = "L233"
    /\ UNCHANGED <<ctx, fs, MOUNTED, mounted, attached, exc, sigints,
                   randextents, rand, emptyextents, verdicts, psize>>
    /\ UNCHANGED nonMainVars

\* line 233
Umount ==
    /\ Running
    /\ pc = "L233"
    /\ mounted' = FALSE
    /\ pc' = "L234"
    /\ UNCHANGED <<ctx, fs, MOUNTED, attached, exc, sigints,
                   randextents, rand, emptyextents, empty, verdicts, psize>>
    /\ UNCHANGED nonMainVars

\* line 234
ClearMounted ==
    /\ Running
    /\ pc = "L234"
    /\ MOUNTED' = FALSE
    /\ pc' = "L235"
    /\ UNCHANGED <<ctx, fs, mounted, attached, exc, sigints,
                   randextents, rand, emptyextents, empty, verdicts, psize>>
    /\ UNCHANGED nonMainVars

\* line 235
FsckWanted ==
    /\ Running
    /\ pc = "L235"
    /\ filesystems[fs] \notin {"ntfs", "btrfs", "xfs"}
    /\ pc' = "L236"
    /\ UNCHANGED <<ctx, fs, MOUNTED, mounted, attached, exc, sigints,
                   randextents, rand, emptyextents, empty, verdicts, psize>>
    /\ UNCHANGED nonMainVars

FsckSkipped ==
    /\ Running
    /\ pc = "L235"
    /\ filesystems[fs] \in {"ntfs", "btrfs", "xfs"}
    /\ pc' = "L237"
    /\ UNCHANGED <<ctx, fs, MOUNTED, mounted, attached, exc, sigints,
                   randextents, rand, emptyextents, empty, verdicts, psize>>
    /\ UNCHANGED nonMainVars

\* line 237
ReadPsize ==
    /\ Running
    /\ pc = "L237"
    /\ psize' \in MainPsizes
    /\ pc' = "L238"
    /\ UNCHANGED <<ctx, fs, MOUNTED, mounted, attached, exc, sigints,
                   randextents, rand, emptyextents, empty, verdicts>>
    /\ UNCHANGED nonMainVars

\* lines 238 and 239: test_filefrag returns and the script goes on
TestReturnsAt(line, next, a, l) ==
    /\ Running
    /\ pc = line
    /\ LET t == TestFilefrag(a, l, psize)
       IN  /\ t.result # "IndexError"
           /\ verdicts' = Append(verdicts, t.result)
    /\ pc' = next
    /\ UNCHANGED <<ctx, fs, MOUNTED, mounted, attached, exc, sigints,
                   randextents, rand, emptyextents, empty, psize>>
    /\ UNCHANGED nonMainVars

\* lines 238 and 239: the IndexError of dataread leaves test_filefrag uncaught
TestRaisesAt(line, a, l) ==
    /\ Running
    /\ pc = line
    /\ TestFilefrag(a, l, psize).result = "IndexError"
    /\ Raise("IndexError")
    /\ UNCHANGED <<fs, MOUNTED, mounted, attached, sigints,
                   randextents, rand, emptyextents, empty, verdicts, psize>>
    /\ UNCHANGED nonMainVars

TestRandomReturns == TestReturnsAt("L238", "L239", rand, randextents)
TestRandomRaises == TestRaisesAt("L238", rand, randextents)
\* after line 239 only the print of line 240 is left of the trial
TestEmptyReturns == TestReturnsAt("L239", "L207", empty, emptyextents)
TestEmptyRaises == TestRaisesAt("L239", empty, emptyextents)

\* line 242
FinalCleanup ==
    /\ Running
    /\ pc = "L242"
    /\ pc' = "C174"
    /\ UNCHANGED <<ctx, fs, MOUNTED, mounted, attached, exc, sigints,
                   randextents, rand, emptyextents, empty, verdicts, psize>>
    /\ UNCHANGED nonMainVars

\* lines 192-195: SIGINT arrives between two statements; the handler runs cleanup
\* on top of whatever was running
Sigint ==
    /\ pc # "exited"
    /\ sigints < MaxSigints
    /\ sigints' = sigints + 1
    /\ ctx' = IF ctx = "main" THEN "signal_handler" ELSE ctx
    /\ pc' = "C174"
    /\ UNCHANGED <<fs, MOUNTED, mounted, attached, exc,
                   randextents, rand, emptyextents, empty, verdicts, psize>>
    /\ UNCHANGED nonMainVars

\* lines 174-175: MOUNTED is set and umount succeeds
CleanupUmount ==
    /\ pc = "C174"
    /\ MOUNTED /\ mounted
    /\ mounted' = FALSE
    /\ pc' = "C176"
    /\ UNCHANGED <<ctx, fs, MOUNTED, attached, exc, sigints,
                   randextents, rand, emptyextents, empty, verdicts, psize>>
    /\ UNCHANGED nonMainVars

\* lines 174-175: MOUNTED is set, nothing is mounted, umount exits with non-zero
CleanupUmountRaises ==
    /\ pc = "C174"
    /\ MOUNTED /\ ~mounted
    /\ Raise("Returncode")
    /\ UNCHANGED <<fs, MOUNTED, mounted, attached, sigints,
                   randextents, rand, emptyextents, empty, verdicts, psize>>
    /\ UNCHANGED nonMainVars

\* line 174: MOUNTED is not set, umount is not run
CleanupSkipsUmount ==
    /\ pc = "C174"
    /\ ~MOUNTED
    /\ pc' = "C176"
    /\ UNCHANGED <<ctx, fs, MOUNTED, mounted, attached, exc, sigints,
                   randextents, rand, emptyextents, empty, verdicts, psize>>
    /\ UNCHANGED nonMainVars

\* line 176: the loop device is detached, or stays set up under a mounted filesystem
CleanupDetach ==
    /\ pc = "C176"
    /\ attached
    /\ attached' = mounted
    /\ pc' = "C177"
    /\ UNCHANGED <<ctx, fs, MOUNTED, mounted, exc, sigints,
                   randextents, rand, emptyextents, empty, verdicts, psize>>
    /\ UNCHANGED nonMainVars

\* line 176: no loop device is set up, losetup exits with non-zero
CleanupDetachRaises ==
    /\ pc = "C176"
    /\ ~attached
    /\ Raise("Returncode")
    /\ UNCHANGED <<fs, MOUNTED, mounted, attached, sigints,
                   randextents, rand, emptyextents, empty, verdicts, psize>>
    /\ UNCHANGED nonMainVars

\* lines 177-180, then the end of the caller: the script's last line, sys.exit(0)
\* of line 196 or the system hook of line 188
CleanupEnds ==
    /\ pc = "C177"
    /\ pc' = "exited"
    /\ UNCHANGED <<ctx, fs, MOUNTED, mounted, attached, exc, sigints,
                   randextents, rand, emptyextents, empty, verdicts, psize>>
    /\ UNCHANGED nonMainVars

NextMain ==
    \/ PlainExe
    \/ ExeRaises
    \/ Losetup
    \/ ForNext
    \/ ForDone
    \/ Mount
    \/ SetMounted
    \/ ParseRandom
    \/ ReadRandom
    \/ ParseEmpty
    \/ ReadEmpty
    \/ Umount
    \/ ClearMounted
    \/ FsckWanted
    \/ FsckSkipped
    \/ ReadPsize
    \/ TestRandomReturns
    \/ TestRandomRaises
    \/ TestEmptyReturns
    \/ TestEmptyRaises
    \/ FinalCleanup
    \/ Sigint
    \/ CleanupUmount
    \/ CleanupUmountRaises
    \/ CleanupSkipsUmount
    \/ CleanupDetach
    \/ CleanupDetachRaises
    \/ CleanupEnds

SpecMain == InitMain /\ [][NextMain]_vars

\* ---------------------------------------------------- script body: properties
\* C8: only the failure of an external command aborts the run; a content
\* mismatch, a bounds violation, an empty or too short extent list is a result
\* of its trial, after which the loop goes on to the next filesystem.
C8_OnlyCommandFailureAborts ==
    exc # "none" => exc = "Returncode"

\* C10: whenever cleanup starts, MOUNTED tells whether the filesystem is
\* mounted, and the process never exits with the filesystem mounted or the loop
\* device still set up.
C10_CleanupReleasesMount ==
    /\ pc = "C174" => MOUNTED = mounted
    /\ pc = "exited" => (~mounted /\ ~attached)

====
